---- MODULE Spec2Model ----
(***************************************************************************)
(* Model of the DENM annotator (src/index.tsx): the incident record and    *)
(* its derivation rules (updateField), the box sink (updateBox), the       *)
(* export transform (downloadJson), the import (processJsonFile) and the   *)
(* pointer-driven box editor (BoxOverlay).                                 *)
(*                                                                         *)
(* Encoding of JavaScript values:                                          *)
(*   - numbers that may be null/undefined are integers with the sentinels  *)
(*     Null and Undef (both far outside every numeric range used);         *)
(*   - strings that may be null/undefined are strings with the sentinels   *)
(*     NullStr and UndefStr;                                               *)
(*   - a timestamp t is a fixed-point number in units of 1/TUnit           *)
(*     (t = TUnit is 1.0);                                                 *)
(*   - a coordinate handed to updateBox is a rational <<num, den>>, den>0, *)
(*     a stored coordinate is an integer;                                  *)
(*   - code indices are 0-based, TLA+ sequences 1-based: the code's        *)
(*     box[k] is box[k+1], box_2d[idx] is box_2d[idx+1], jsonData[i] is    *)
(*     jsonData[i+1].                                                      *)
(***************************************************************************)
EXTENDS Integers, Sequences, FiniteSets, TLC

\* ---------------------------------------------------------------- values
Null == -999999
Undef == -999998
NaN == -999997
NullStr == "<null>"
UndefStr == "<undefined>"
TUnit == 1000
CoordMax == 1000

\* JavaScript truthiness of a number / of a string (for `x || fallback`).
FalsyNum(n) == n = Null \/ n = Undef \/ n = 0
FalsyStr(s) == s = NullStr \/ s = UndefStr \/ s = ""

\* ------------------------------------------------------- reference table
\* DENM_MAPPING.causeCodes: code -> name
CauseName ==
  [c \in {2, 3, 6, 9, 10, 11, 12, 14, 15, 17, 18, 19, 94} |->
     CASE c = 2 -> "accident"
       [] c = 3 -> "roadworks"
       [] c = 6 -> "adverseWeatherCondition-adhesion"
       [] c = 9 -> "hazardousLocation-surfaceCondition"
       [] c = 10 -> "hazardousLocation-obstacleOnTheRoad"
       [] c = 11 -> "hazardousLocation-animalOnTheRoad"
       [] c = 12 -> "humanPresenceOnTheRoad"
       [] c = 14 -> "wrongWayDriving"
       [] c = 15 -> "rescueAndRecoveryWorkInProgress"
       [] c = 17 -> "adverseWeatherCondition-ExtremeWeather"
       [] c = 18 -> "adverseWeatherCondition-Visibility"
       [] c = 19 -> "adverseWeatherCondition-Precipitation"
       [] c = 94 -> "vehicleBreakdown"]

\* DENM_MAPPING.causeCodes[c].subCauseCodes: sub-cause code -> text
SubCauseCodes ==
  [c \in DOMAIN CauseName |->
     CASE c = 2 -> (7 :> "unsecured accident")
       [] c = 3 -> (2 :> "road marking work" @@ 3 :> "slow moving road maintenance"
                    @@ 4 :> "short-term stationary roadworks")
       [] c = 6 -> (0 :> "slippery road (generic)" @@ 2 :> "fuel on road"
                    @@ 3 :> "mud on road" @@ 5 :> "ice on road"
                    @@ 6 :> "black ice on road" @@ 7 :> "oil on road"
                    @@ 8 :> "loose chippings")
       [] c = 9 -> (0 :> "flooding" @@ 5 :> "snow drifts")
       [] c = 10 -> (0 :> "objects on the road" @@ 1 :> "shed load"
                     @@ 4 :> "large objects" @@ 5 :> "fallen trees")
       [] c = 11 -> (0 :> "animals on roadway" @@ 2 :> "herd of animals"
                     @@ 4 :> "large animals")
       [] c = 12 -> (0 :> "people on roadway" @@ 1 :> "children on roadway"
                     @@ 2 :> "cyclists on roadway")
       [] c = 14 -> (0 :> "wrong way driving")
       [] c = 15 -> (0 :> "rescue and recovery work in progress")
       [] c = 17 -> (1 :> "strong winds")
       [] c = 18 -> (0 :> "visibility reduced (generic)"
                     @@ 1 :> "visibility reduced due to fog"
                     @@ 2 :> "visibility reduced due to smoke"
                     @@ 3 :> "visibility reduced due to heavy snowfall"
                     @@ 6 :> "visibility reduced due to low sun glare")
       [] c = 19 -> (1 :> "heavy rain" @@ 2 :> "heavy snowfall")
       [] c = 94 -> (2 :> "broken down vehicle")]

\* `DENM_MAPPING.causeCodes[String(c)]` is defined (String(null) = "null"
\* and unknown codes give undefined).
HasInfo(c) == c \in DOMAIN CauseName

\* `info.subCauseCodes[String(v)] || null`
SubText(c, v) ==
  IF v \in DOMAIN SubCauseCodes[c] THEN SubCauseCodes[c][v] ELSE NullStr

\* ----------------------------------------------------------------- records
\* The fallback record of processJsonFile and the record of startWorkspace.
DefaultParsed ==
  [incident |-> 0, message_type |-> "none",
   cause_code |-> Null, sub_cause_code |-> Null,
   cause_text |-> NullStr, sub_cause_text |-> NullStr,
   box_2d |-> <<>>, description |-> ""]

\* The two boxes a freshly enabled incident gets.
DefaultBoxes == << <<0, 0, 0, 0, 0>>, <<TUnit, 0, 0, 0, 0>> >>

\* ------------------------------------------------------------ updateField
\* The body of updateField's state updater for one record: assign the value,
\* then the "auto-logic for DENM compliance".
\* Switching the incident on without initialising the boxes.
DeriveIncidentNoInit(p, value) ==
  IF value = 1
    THEN [p EXCEPT !.message_type = "DENM"]
    ELSE [p EXCEPT !.message_type = "none", !.cause_code = Null,
                   !.sub_cause_code = Null, !.cause_text = NullStr,
                   !.sub_cause_text = NullStr, !.box_2d = <<>>]

\* Switching the incident off without clearing the codes.
DeriveIncidentKeepCodes(p, value) ==
  IF value = 1
    THEN [p EXCEPT !.message_type = "DENM",
                   !.box_2d = IF Len(p.box_2d) # 2 THEN DefaultBoxes ELSE @]
    ELSE [p EXCEPT !.message_type = "none", !.cause_text = NullStr,
                   !.sub_cause_text = NullStr, !.box_2d = <<>>]

\* Switching the incident off without dropping the boxes.
DeriveIncidentKeepBoxes(p, value) ==
  IF value = 1
    THEN [p EXCEPT !.message_type = "DENM",
                   !.box_2d = IF Len(p.box_2d) # 2 THEN DefaultBoxes ELSE @]
    ELSE [p EXCEPT !.message_type = "none", !.cause_code = Null,
                   !.sub_cause_code = Null, !.cause_text = NullStr,
                   !.sub_cause_text = NullStr]

\* Switching the incident on always installs the default boxes.
DeriveIncidentAlwaysInit(p, value) ==
  IF value = 1
    THEN [p EXCEPT !.message_type = "DENM", !.box_2d = DefaultBoxes]
    ELSE [p EXCEPT !.message_type = "none", !.cause_code = Null,
                   !.sub_cause_code = Null, !.cause_text = NullStr,
                   !.sub_cause_text = NullStr, !.box_2d = <<>>]

DeriveIncident(p, value) ==
  IF value = 1
    THEN [p EXCEPT !.message_type = "DENM",
                   !.box_2d = IF Len(p.box_2d) # 2 THEN DefaultBoxes ELSE @]
    ELSE [p EXCEPT !.message_type = "none", !.cause_code = Null,
                   !.sub_cause_code = Null, !.cause_text = NullStr,
                   !.sub_cause_text = NullStr, !.box_2d = <<>>]

\* A cause change that keeps the selected sub-cause.
DeriveCauseKeepSub(p, value) ==
  IF value = Null \/ value = 0
    THEN [p EXCEPT !.cause_code = Null, !.cause_text = NullStr,
                   !.sub_cause_code = Null, !.sub_cause_text = NullStr]
    ELSE [p EXCEPT !.cause_text =
            IF HasInfo(value) THEN CauseName[value] ELSE NullStr]

\* A cause change that resets the sub-cause code but keeps its text.
DeriveCauseKeepSubText(p, value) ==
  LET q == IF value = Null \/ value = 0
             THEN [p EXCEPT !.cause_code = Null, !.cause_text = NullStr]
             ELSE [p EXCEPT !.cause_text =
                     IF HasInfo(value) THEN CauseName[value] ELSE NullStr]
  IN [q EXCEPT !.sub_cause_code = Null]

DeriveCause(p, value) ==
  LET q == IF value = Null \/ value = 0
             THEN [p EXCEPT !.cause_code = Null, !.cause_text = NullStr]
             ELSE [p EXCEPT !.cause_text =
                     IF HasInfo(value) THEN CauseName[value] ELSE NullStr]
  IN [q EXCEPT !.sub_cause_code = Null, !.sub_cause_text = NullStr]

\* A sub-cause change that stores the code without looking up its text.
DeriveSubCauseNoLookup(p, value) ==
  IF value = Null \/ value = 0
    THEN [p EXCEPT !.sub_cause_code = Null, !.sub_cause_text = NullStr]
    ELSE p

\* A sub-cause change that leaves the old text when the table has no entry.
DeriveSubCauseKeepText(p, value) ==
  IF value = Null \/ value = 0
    THEN [p EXCEPT !.sub_cause_code = Null, !.sub_cause_text = NullStr]
    ELSE IF HasInfo(p.cause_code) /\ value \in DOMAIN SubCauseCodes[p.cause_code]
           THEN [p EXCEPT !.sub_cause_text = SubText(p.cause_code, value)]
           ELSE p

DeriveSubCause(p, value) ==
  IF value = Null \/ value = 0
    THEN [p EXCEPT !.sub_cause_code = Null, !.sub_cause_text = NullStr]
    ELSE IF HasInfo(p.cause_code)
           THEN [p EXCEPT !.sub_cause_text = SubText(p.cause_code, value)]
           ELSE p

\* updateField that ignores the fields without derivation rules.
UpdateParsedFieldDropsOther(p, key, value) ==
  LET assigned == [p EXCEPT ![key] = value]
  IN CASE key = "incident" -> DeriveIncident(assigned, value)
       [] key = "cause_code" -> DeriveCause(assigned, value)
       [] key = "sub_cause_code" -> DeriveSubCause(assigned, value)
       [] OTHER -> p

UpdateParsedField(p, key, value) ==
  LET assigned == [p EXCEPT ![key] = value]
  IN CASE key = "incident" -> DeriveIncident(assigned, value)
       [] key = "cause_code" -> DeriveCause(assigned, value)
       [] key = "sub_cause_code" -> DeriveSubCause(assigned, value)
       [] OTHER -> assigned

\* updateField applied to every item of the dataset.
updateFieldEveryItem(prev, sel, key, value) ==
  IF sel = -1 THEN prev
  ELSE IF ~prev[sel + 1].hasParsed THEN prev
  ELSE [i \in 1..Len(prev) |->
          IF prev[i].hasParsed
            THEN [prev[i] EXCEPT !.parsed = UpdateParsedField(@, key, value)]
            ELSE prev[i]]

\* updateField(key, value) as a function of the previous dataset and the
\* selected index.
updateField(prev, sel, key, value) ==
  IF sel = -1 THEN prev
  ELSE IF ~prev[sel + 1].hasParsed THEN prev
  ELSE [prev EXCEPT ![sel + 1].parsed = UpdateParsedField(@, key, value)]

\* -------------------------------------------------------------- updateBox
\* Math.max(0, Math.min(1000, x)) on a rational x = <<num, den>>.
ClampQ(q) ==
  IF q[1] < 0 THEN <<0, 1>>
  ELSE IF q[1] > CoordMax * q[2] THEN <<CoordMax, 1>>
  ELSE q

\* Math.floor instead of Math.round.
RoundDown(q) == q[1] \div q[2]

\* Math.round on a rational: nearest integer, halves go up (\div floors).
\* The only rational with denominator 0 that ClampQ lets through is 0/0,
\* which is NaN, and Math.round(NaN) is NaN.
RoundQ(q) == IF q[2] = 0 THEN NaN ELSE (2 * q[1] + q[2]) \div (2 * q[2])

\* Rounding without the clamp.
RoundOnly(q) == RoundQ(q)

ClampRound(q) == RoundQ(ClampQ(q))

\* The rational of an integer.
Q(n) == <<n, 1>>

\* updateBox without the test on incident.
updateBoxAnyIncident(prev, sel, idx, newBox) ==
  IF sel = -1 THEN prev
  ELSE IF ~prev[sel + 1].hasParsed THEN prev
  ELSE LET parsed == prev[sel + 1].parsed
       IN IF Len(parsed.box_2d) = 2
            THEN LET clamped == <<newBox[1], ClampRound(newBox[2]),
                                  ClampRound(newBox[3]), ClampRound(newBox[4]),
                                  ClampRound(newBox[5])>>
                 IN [prev EXCEPT ![sel + 1].parsed.box_2d[idx + 1] = clamped]
            ELSE prev

\* updateBox(idx, newBox): newBox = <<t, ymin, xmin, ymax, xmax>> with the
\* coordinates rational.
updateBox(prev, sel, idx, newBox) ==
  IF sel = -1 THEN prev
  ELSE IF ~prev[sel + 1].hasParsed THEN prev
  ELSE LET parsed == prev[sel + 1].parsed
       IN IF parsed.incident = 1 /\ Len(parsed.box_2d) = 2
            THEN LET clamped == <<newBox[1], ClampRound(newBox[2]),
                                  ClampRound(newBox[3]), ClampRound(newBox[4]),
                                  ClampRound(newBox[5])>>
                 IN [prev EXCEPT ![sel + 1].parsed.box_2d[idx + 1] = clamped]
            ELSE prev

\* ------------------------------------------------ JSON.stringify / parse
\* A JSON text is a sequence of characters (one-character strings; a string
\* literal is kept whole between its quotes).  The text of an object is the
\* record of the texts of its keys in the fixed order of cleanParsed; a key
\* whose value is undefined is omitted, which the empty text stands for.
DigitChar == <<"0", "1", "2", "3", "4", "5", "6", "7", "8", "9">>

RECURSIVE DigitsOf(_)
DigitsOf(n) ==
  IF n < 10 THEN <<DigitChar[n + 1]>>
  ELSE DigitsOf(n \div 10) \o <<DigitChar[(n % 10) + 1]>>

RECURSIVE DigitsValue(_)
DigitsValue(txt) ==
  IF txt = <<>> THEN 0
  ELSE 10 * DigitsValue(SubSeq(txt, 1, Len(txt) - 1))
       + ((CHOOSE d \in 1..10 : DigitChar[d] = txt[Len(txt)]) - 1)

JsonNull == <<"n", "u", "l", "l">>

\* number | null | undefined  ->  text
JsonNum(n) ==
  IF n = Undef THEN <<>>
  ELSE IF n = Null THEN JsonNull
  ELSE IF n < 0 THEN <<"-">> \o DigitsOf(0 - n)
  ELSE DigitsOf(n)

ParseNum(txt) ==
  IF txt = <<>> THEN Undef
  ELSE IF txt = JsonNull THEN Null
  ELSE IF txt[1] = "-" THEN 0 - DigitsValue(Tail(txt))
  ELSE DigitsValue(txt)

\* string | null | undefined  ->  text
JsonStr(s) ==
  IF s = UndefStr THEN <<>>
  ELSE IF s = NullStr THEN JsonNull
  ELSE <<"\"", s, "\"">>

ParseStr(txt) ==
  IF txt = <<>> THEN UndefStr
  ELSE IF txt = JsonNull THEN NullStr
  ELSE txt[2]

JsonBox(box) == [k \in 1..5 |-> JsonNum(box[k])]
ParseBox(txt) == [k \in 1..5 |-> ParseNum(txt[k])]

\* JSON.stringify(cleanParsed)
Stringify(p) ==
  [incident |-> JsonNum(p.incident),
   message_type |-> JsonStr(p.message_type),
   cause_code |-> JsonNum(p.cause_code),
   sub_cause_code |-> JsonNum(p.sub_cause_code),
   cause_text |-> JsonStr(p.cause_text),
   sub_cause_text |-> JsonStr(p.sub_cause_text),
   box_2d |-> [i \in 1..Len(p.box_2d) |-> JsonBox(p.box_2d[i])],
   description |-> JsonStr(p.description)]

\* JSON.parse(assistant.value) for the text of an object
Parse(obj) ==
  [incident |-> ParseNum(obj.incident),
   message_type |-> ParseStr(obj.message_type),
   cause_code |-> ParseNum(obj.cause_code),
   sub_cause_code |-> ParseNum(obj.sub_cause_code),
   cause_text |-> ParseStr(obj.cause_text),
   sub_cause_text |-> ParseStr(obj.sub_cause_text),
   box_2d |-> [i \in 1..Len(obj.box_2d) |-> ParseBox(obj.box_2d[i])],
   description |-> ParseStr(obj.description)]

\* ------------------------------------------------------------ dataset items
\* The text of a conversation turn's value: the text of an object
\* ("object"), no value ("absent"), the empty string ("empty"), text that
\* JSON.parse rejects ("malformed"), and a human prompt ("prompt").
Annotation(kind, obj) == [kind |-> kind, obj |-> obj]
NoText == [incident |-> <<>>, message_type |-> <<>>, cause_code |-> <<>>,
           sub_cause_code |-> <<>>, cause_text |-> <<>>, sub_cause_text |-> <<>>,
           box_2d |-> <<>>, description |-> <<>>]

Turn(from, value) == [from |-> from, value |-> value]
HumanTurn == Turn("human", Annotation("prompt", NoText))
AssistantTurn(jsonStr) == Turn("assistant", Annotation("object", jsonStr))

\* conversations.findIndex(c => c.from === 'assistant'), 1-based; 0 for -1
AssistantIdx(convs) ==
  IF \E i \in 1..Len(convs) : convs[i].from = "assistant"
    THEN CHOOSE i \in 1..Len(convs) :
           /\ convs[i].from = "assistant"
           /\ \A j \in 1..(i - 1) : convs[j].from # "assistant"
    ELSE 0

\* A dataset item: its conversations (the empty sequence also for a
\* missing list), whether it has the internal `_parsed` record, and the
\* record.  Item(p) is an item of a file whose assistant turn holds p.
Item(p) ==
  [hasParsed |-> TRUE, parsed |-> p,
   conversations |-> <<HumanTurn, AssistantTurn(Stringify(p))>>]
NoParsedItem ==
  [hasParsed |-> FALSE, parsed |-> DefaultParsed, conversations |-> <<HumanTurn>>]

\* ------------------------------------------------------------ downloadJson
\* `newItem._parsed || {}`: destructuring an item without a record gives
\* undefined for every field.
NoFields ==
  [incident |-> Undef, message_type |-> UndefStr,
   cause_code |-> Undef, sub_cause_code |-> Undef,
   cause_text |-> UndefStr, sub_cause_text |-> UndefStr,
   box_2d |-> <<>>, description |-> UndefStr]

OrNullNum(n) == IF FalsyNum(n) THEN Null ELSE n
OrNullStr(s) == IF FalsyStr(s) THEN NullStr ELSE s

\* The record written verbatim, with no re-normalization.
cleanParsedVerbatim(p) ==
  [p EXCEPT !.incident = IF FalsyNum(p.incident) THEN 0 ELSE p.incident,
            !.description = IF FalsyStr(p.description) THEN "" ELSE p.description]

cleanParsed(p) ==
  [incident |-> IF FalsyNum(p.incident) THEN 0 ELSE p.incident,
   message_type |-> IF p.incident = 1 THEN "DENM" ELSE "none",
   cause_code |-> IF p.incident = 1 THEN OrNullNum(p.cause_code) ELSE Null,
   sub_cause_code |-> IF p.incident = 1 THEN OrNullNum(p.sub_cause_code) ELSE Null,
   cause_text |-> IF p.incident = 1 THEN OrNullStr(p.cause_text) ELSE NullStr,
   sub_cause_text |-> IF p.incident = 1 THEN OrNullStr(p.sub_cause_text) ELSE NullStr,
   box_2d |-> IF p.incident = 1 THEN p.box_2d ELSE <<>>,
   description |-> IF FalsyStr(p.description) THEN "" ELSE p.description]

\* String.prototype.toLowerCase on the texts that occur: the table names
\* with capitals, and the capitalised text of ImportTexts.
toLowerCase(s) ==
  CASE s = "adverseWeatherCondition-adhesion" -> "adverseweathercondition-adhesion"
    [] s = "hazardousLocation-surfaceCondition" -> "hazardouslocation-surfacecondition"
    [] s = "hazardousLocation-obstacleOnTheRoad" -> "hazardouslocation-obstacleontheroad"
    [] s = "hazardousLocation-animalOnTheRoad" -> "hazardouslocation-animalontheroad"
    [] s = "humanPresenceOnTheRoad" -> "humanpresenceontheroad"
    [] s = "wrongWayDriving" -> "wrongwaydriving"
    [] s = "rescueAndRecoveryWorkInProgress" -> "rescueandrecoveryworkinprogress"
    [] s = "adverseWeatherCondition-ExtremeWeather" -> "adverseweathercondition-extremeweather"
    [] s = "adverseWeatherCondition-Visibility" -> "adverseweathercondition-visibility"
    [] s = "adverseWeatherCondition-Precipitation" -> "adverseweathercondition-precipitation"
    [] s = "vehicleBreakdown" -> "vehiclebreakdown"
    [] s = "Accident" -> "accident"
    [] OTHER -> s

\* The label built without toLowerCase.
TypeLabelNoLower(c) ==
  IF c.incident = 1 /\ ~FalsyStr(c.cause_text)
    THEN IF ~FalsyStr(c.sub_cause_text)
           THEN c.cause_text \o " - " \o c.sub_cause_text ELSE c.cause_text
    ELSE "none"

\* The root `type` label computed from a record's incident and texts.
TypeLabel(c) ==
  IF c.incident = 1 /\ ~FalsyStr(c.cause_text)
    THEN LET cText == toLowerCase(c.cause_text)
             sText == IF ~FalsyStr(c.sub_cause_text)
                        THEN toLowerCase(c.sub_cause_text) ELSE ""
         IN IF sText # "" THEN cText \o " - " \o sText ELSE cText
    ELSE "none"

\* The conversations left as they are when no turn is the assistant's.
ExportConversationsNoAppend(convs, jsonStr) ==
  IF convs = <<>> THEN <<HumanTurn, AssistantTurn(jsonStr)>>
  ELSE IF AssistantIdx(convs) # 0
    THEN [convs EXCEPT ![AssistantIdx(convs)].value = Annotation("object", jsonStr)]
    ELSE convs

\* "Update/Create Assistant Message": a new human and assistant pair for a
\* missing or empty list, else the first assistant turn's value replaced,
\* else an assistant turn appended.
ExportConversations(convs, jsonStr) ==
  IF convs = <<>> THEN <<HumanTurn, AssistantTurn(jsonStr)>>
  ELSE IF AssistantIdx(convs) # 0
    THEN [convs EXCEPT ![AssistantIdx(convs)].value = Annotation("object", jsonStr)]
    ELSE Append(convs, AssistantTurn(jsonStr))

\* One exported item: the annotation string (value), the conversations
\* that carry it, the root type, and the `_parsed` field deleted.
\* The label read from the stored record instead of from cleanParsed.
ExportItemStaleType(item) ==
  LET p == IF item.hasParsed THEN item.parsed ELSE NoFields
      jsonStr == Stringify(cleanParsed(p))
  IN [value |-> jsonStr,
      conversations |-> ExportConversations(item.conversations, jsonStr),
      type |-> IF ~FalsyStr(p.cause_text)
                 THEN TypeLabel([p EXCEPT !.incident = 1]) ELSE "none",
      hasParsed |-> FALSE]

ExportItem(item) ==
  LET p == IF item.hasParsed THEN item.parsed ELSE NoFields
      clean == cleanParsed(p)
      jsonStr == Stringify(clean)
  IN [value |-> jsonStr,
      conversations |-> ExportConversations(item.conversations, jsonStr),
      type |-> TypeLabel(clean),
      hasParsed |-> FALSE]

downloadJson(data) == [i \in 1..Len(data) |-> ExportItem(data[i])]

\* --------------------------------------------------------- processJsonFile
\* item.conversations?.find(c => c.from === 'assistant') and its value:
\* "absent" when there is no assistant turn.
AssistantValue(convs) ==
  IF AssistantIdx(convs) # 0 THEN convs[AssistantIdx(convs)].value
  ELSE Annotation("absent", NoText)

\* `assistant && assistant.value`
HasValue(a) == a.kind \notin {"absent", "empty"}
\* JSON.parse(assistant.value) returns
Parsable(a) == a.kind = "object"

\* The inner catch leaves the item without a record.
ImportItemNoFallback(a) ==
  IF HasValue(a)
    THEN IF Parsable(a) THEN Item(Parse(a.obj)) ELSE NoParsedItem
    ELSE Item(DefaultParsed)

ImportItem(a) ==
  IF HasValue(a)
    THEN IF Parsable(a) THEN Item(Parse(a.obj)) ELSE Item(DefaultParsed)
    ELSE Item(DefaultParsed)

\* file: the conversations of each item of the file.
processJsonFile(file) ==
  [i \in 1..Len(file) |->
     [ImportItem(AssistantValue(file[i])) EXCEPT !.conversations = file[i]]]

\* Re-importing an exported dataset.
ReImport(exported) ==
  processJsonFile([i \in 1..Len(exported) |-> exported[i].conversations])

\* ------------------------------------------------------------- BoxOverlay
Modes == {"move", "nw", "ne", "sw", "se", "n", "s", "e", "w", "draw"}

Rect(left, top, width, height) ==
  [left |-> left, top |-> top, width |-> width, height |-> height]

\* dragState = null
NoDrag ==
  [mode |-> "none", startX |-> 0, startY |-> 0,
   startBox |-> <<0, 0, 0, 0, 0>>, rect |-> Rect(0, 0, 0, 0)]

DrawThreshold == 15
ClickThreshold == 5

\* Math.sqrt(dx*dx + dy*dy) < d, for integers
Within(dx, dy, d) == dx * dx + dy * dy < d * d

\* handleMove with the click threshold in place of the draw threshold.
MoveIssuesClickThreshold(ds, x, y) ==
  /\ ds.rect.width # 0
  /\ ds.rect.height # 0
  /\ ds.mode = "draw" => ~Within(x - ds.startX, y - ds.startY, ClickThreshold)

\* handleMove that only tests the width of the rectangle.
MoveIssuesWidthOnly(ds, x, y) ==
  /\ ds.rect.width # 0
  /\ ds.mode = "draw" => ~Within(x - ds.startX, y - ds.startY, DrawThreshold)

\* handleMove issues an update for pointer position (x, y).
MoveIssues(ds, x, y) ==
  /\ ds.rect.width # 0
  /\ ds.rect.height # 0
  /\ ds.mode = "draw" => ~Within(x - ds.startX, y - ds.startY, DrawThreshold)

Min(a, b) == IF a < b THEN a ELSE b
Max(a, b) == IF a > b THEN a ELSE b

\* The boxes handleMove hands to onUpdate; x coordinates are rationals over
\* rect.width, y coordinates over rect.height.
\* Draw mode without the min/max: the origin first, the pointer second.
DrawBoxUnreconciled(ds, x, y) ==
  LET w == ds.rect.width
      h == ds.rect.height
  IN <<ds.startBox[1],
       ClampQ(<<(ds.startY - ds.rect.top) * 1000, h>>),
       ClampQ(<<(ds.startX - ds.rect.left) * 1000, w>>),
       ClampQ(<<(y - ds.rect.top) * 1000, h>>),
       ClampQ(<<(x - ds.rect.left) * 1000, w>>)>>

\* Draw mode: the rectangle spanned by the drag origin and the pointer.
DrawBox(ds, x, y) ==
  LET w == ds.rect.width
      h == ds.rect.height
      startXRel == (ds.startX - ds.rect.left) * 1000
      startYRel == (ds.startY - ds.rect.top) * 1000
      currXRel == (x - ds.rect.left) * 1000
      currYRel == (y - ds.rect.top) * 1000
  IN <<ds.startBox[1],
       ClampQ(<<Min(startYRel, currYRel), h>>),
       ClampQ(<<Min(startXRel, currXRel), w>>),
       ClampQ(<<Max(startYRel, currYRel), h>>),
       ClampQ(<<Max(startXRel, currXRel), w>>)>>

\* The raw coordinates with the ne handle moving xMin instead of xMax.
RawBoxNeMovesXmin(ds, x, y) ==
  LET w == ds.rect.width
      h == ds.rect.height
      dx == (x - ds.startX) * 1000
      dy == (y - ds.startY) * 1000
      sYmin == ds.startBox[2] * h
      sXmin == ds.startBox[3] * w
      sYmax == ds.startBox[4] * h
      sXmax == ds.startBox[5] * w
      m == ds.mode
  IN [nXmin |-> IF m \in {"move", "nw", "sw", "w", "ne"} THEN sXmin + dx ELSE sXmin,
      nXmax |-> IF m \in {"move", "se", "e"} THEN sXmax + dx ELSE sXmax,
      nYmin |-> IF m \in {"move", "nw", "ne", "n"} THEN sYmin + dy ELSE sYmin,
      nYmax |-> IF m \in {"move", "sw", "se", "s"} THEN sYmax + dy ELSE sYmax]

\* The raw coordinates of a move or resize: the start box with the
\* normalized delta added to the coordinates the mode names.
RawBox(ds, x, y) ==
  LET w == ds.rect.width
      h == ds.rect.height
      dx == (x - ds.startX) * 1000
      dy == (y - ds.startY) * 1000
      sYmin == ds.startBox[2] * h
      sXmin == ds.startBox[3] * w
      sYmax == ds.startBox[4] * h
      sXmax == ds.startBox[5] * w
      m == ds.mode
  IN [nXmin |-> IF m \in {"move", "nw", "sw", "w"} THEN sXmin + dx ELSE sXmin,
      nXmax |-> IF m \in {"move", "ne", "se", "e"} THEN sXmax + dx ELSE sXmax,
      nYmin |-> IF m \in {"move", "nw", "ne", "n"} THEN sYmin + dy ELSE sYmin,
      nYmax |-> IF m \in {"move", "sw", "se", "s"} THEN sYmax + dy ELSE sYmax]

\* Move and resize without the min/max reconciliation.
ResizeBoxUnordered(ds, x, y) ==
  LET r == RawBox(ds, x, y)
  IN <<ds.startBox[1],
       ClampQ(<<r.nYmin, ds.rect.height>>), ClampQ(<<r.nXmin, ds.rect.width>>),
       ClampQ(<<r.nYmax, ds.rect.height>>), ClampQ(<<r.nXmax, ds.rect.width>>)>>

\* Move and resize modes: reconcile, then clamp.
ResizeBox(ds, x, y) ==
  LET r == RawBox(ds, x, y)
  IN <<ds.startBox[1],
       ClampQ(<<Min(r.nYmin, r.nYmax), ds.rect.height>>),
       ClampQ(<<Min(r.nXmin, r.nXmax), ds.rect.width>>),
       ClampQ(<<Max(r.nYmin, r.nYmax), ds.rect.height>>),
       ClampQ(<<Max(r.nXmin, r.nXmax), ds.rect.width>>)>>

\* The box handed to onUpdate with t reset to 0.
MoveBoxResetsTime(ds, x, y) ==
  LET b == IF ds.mode = "draw" THEN DrawBox(ds, x, y) ELSE ResizeBox(ds, x, y)
  IN <<0, b[2], b[3], b[4], b[5]>>

MoveBox(ds, x, y) ==
  IF ds.mode = "draw" THEN DrawBox(ds, x, y) ELSE ResizeBox(ds, x, y)

\* ------------------------------------------------------------------ bounds
MaxSteps == 3
NItems == 2

\* Values offered to updateField: null, the "unset" 0, table codes and a
\* code outside the table.
IncidentInputs == {0, 1}
CauseInputs == {Null, 0, 2, 6, 99}
SubCauseInputs == {Null, 0, 5, 7, 99}
DescriptionInputs == {"", "ice"}

\* Typed coordinates (Number(e.target.value)), as rationals.
CoordInputs == {<<21, 2>>, <<1500, 1>>}
\* Typed times in seconds, clip durations and playback positions in seconds.
TimeInputs == {-1, 1, 12}
Durations == {0, 10}
CurrentTimes == {0, 5}
\* Pointer positions (clientX, clientY) and container rectangles.
DownPoint == <<100, 100>>
Points == {<<100, 100>>, <<103, 103>>, <<110, 110>>, <<500, 400>>, <<-1500, 100>>}
Rects == {Rect(0, 0, 800, 600), Rect(0, 0, 0, 600), Rect(0, 0, 800, 0)}

\* ------------------------------------------------------------------- state
VARIABLES
  jsonData,           \* the dataset: sequence of items
  selectedItemIndex,  \* -1 or the 0-based index of the selected item
  activeKeyframe,     \* 0 or 1
  dragState,          \* BoxOverlay's dragState (NoDrag for null)
  isPlaying,          \* the video is playing
  currentTime,        \* playback position, seconds
  duration,           \* clip duration, seconds (0 before the metadata loads)
  exportData,         \* the dataset written by the last export (<<>> before)
  last,               \* the last operation and its arguments
  steps               \* number of operations so far

vars == <<jsonData, selectedItemIndex, activeKeyframe, dragState, isPlaying,
          currentTime, duration, exportData, last, steps>>

\* The selected item's record (DefaultParsed when there is none).
HasSelected(data, sel) == sel # -1 /\ data[sel + 1].hasParsed
Selected(data, sel) == IF HasSelected(data, sel) THEN data[sel + 1].parsed ELSE DefaultParsed
parsed == Selected(jsonData, selectedItemIndex)

\* The record of an operation: its name and arguments, the operation before
\* it and the selected record it found.  For the pointer handlers also: the
\* pointer position (at), the position of the last pointer-move of the
\* gesture that issued a box update (far, <<>> when none has), whether
\* only pointer events happened since the pointer-down (pure) and, for a
\* pointer-move, the container's rectangle at that moment (live).
Call(op, key, val, text) ==
  [op |-> op, key |-> key, val |-> val, text |-> text, after |-> last.op,
   pre |-> parsed, at |-> <<0, 0>>, far |-> <<>>, pure |-> FALSE,
   live |-> Rect(0, 0, 0, 0)]

PointerCall(op, key, val, pt, far, pure) ==
  [Call(op, key, val, "") EXCEPT !.at = pt, !.far = far, !.pure = pure]

\* The render condition of the keyframe editor row and of BoxOverlay:
\* parsed && parsed.incident === 1 && parsed.box_2d.length === 2.
EditorRendered(data, sel) ==
  /\ HasSelected(data, sel)
  /\ data[sel + 1].parsed.incident = 1
  /\ Len(data[sel + 1].parsed.box_2d) = 2

\* BoxOverlay keeps its dragState while it stays mounted and loses it when
\* it is unmounted.
Remount(ds, data, sel) == IF EditorRendered(data, sel) THEN ds ELSE NoDrag

\* An incident record as the editor leaves it after enabling the incident,
\* typing yMax = xMax = 100 and entering the time 1 s on a 10 s clip.
SeedIncident ==
  [DefaultParsed EXCEPT !.incident = 1, !.message_type = "DENM",
                        !.box_2d = << <<100, 0, 0, 100, 100>>, <<TUnit, 0, 0, 0, 0>> >>]

\* The state after the dataset file (NItems items) is loaded and before the
\* workspace is started: every item has the default record, or the first
\* one carries an incident annotated in an earlier session.
Init ==
  /\ \E first \in {DefaultParsed, SeedIncident} :
        jsonData = [i \in 1..NItems |-> Item(IF i = 1 THEN first ELSE DefaultParsed)]
  /\ selectedItemIndex = -1
  /\ activeKeyframe = 0
  /\ dragState = NoDrag
  /\ isPlaying = FALSE
  /\ currentTime = 0
  /\ duration = 0
  /\ exportData = <<>>
  /\ last = [op |-> "init", key |-> "", val |-> 0, text |-> "", after |-> "",
             pre |-> DefaultParsed, at |-> <<0, 0>>, far |-> <<>>, pure |-> FALSE,
             live |-> Rect(0, 0, 0, 0)]
  /\ steps = 0

Step == steps < MaxSteps /\ steps' = steps + 1

\* startWorkspace, and a click on a list entry
StartWorkspace ==
  /\ selectedItemIndex = -1
  /\ selectedItemIndex' = 0
  /\ dragState' = Remount(dragState, jsonData, 0)
  /\ last' = Call("startWorkspace", "", 0, "")
  /\ UNCHANGED <<jsonData, activeKeyframe, isPlaying, currentTime, duration, exportData,
                 steps>>

SelectItem(i) ==
  /\ Step
  /\ selectedItemIndex # -1
  /\ selectedItemIndex' = i
  /\ dragState' = Remount(dragState, jsonData, i)
  /\ last' = Call("select", "", i, "")
  /\ UNCHANGED <<jsonData, activeKeyframe, isPlaying, currentTime, duration, exportData>>

\* updateField(key, value)
UpdateField(key, value) ==
  /\ Step
  /\ jsonData' = updateField(jsonData, selectedItemIndex, key, value)
  /\ dragState' = Remount(dragState, jsonData', selectedItemIndex)
  /\ last' = IF key = "description" THEN Call("updateField", key, 0, value)
             ELSE Call("updateField", key, value, "")
  /\ UNCHANGED <<selectedItemIndex, activeKeyframe, isPlaying, currentTime, duration, exportData>>

\* The common tail of every handler that calls updateBox on the active
\* keyframe.
BoxUpdate(newBox, call) ==
  /\ jsonData' = updateBox(jsonData, selectedItemIndex, activeKeyframe, newBox)
  /\ last' = call
  /\ UNCHANGED <<selectedItemIndex, activeKeyframe, dragState, isPlaying,
                 currentTime, duration, exportData>>

ActiveBox == parsed.box_2d[activeKeyframe + 1]

\* CoordControl onChange: the -20 / +20 steppers and a typed value.
CoordChange(idx, v) ==
  /\ Step
  /\ EditorRendered(jsonData, selectedItemIndex)
  /\ LET old == ActiveBox
         asQ == <<old[1], Q(old[2]), Q(old[3]), Q(old[4]), Q(old[5])>>
     IN BoxUpdate([asQ EXCEPT ![idx + 1] = v],
                  Call("coord", "", idx,
                       IF v[1] > CoordMax * v[2] THEN "over"
                       ELSE IF v[1] < 0 THEN "under" ELSE "in"))

CoordControl(idx) ==
  \/ CoordChange(idx, Q(ActiveBox[idx + 1] - 20))
  \/ CoordChange(idx, Q(ActiveBox[idx + 1] + 20))
  \/ \E v \in CoordInputs : CoordChange(idx, v)

\* s / duration in units of 1/TUnit
Normalized(s, d) == (s * TUnit) \div d

\* The manual time input's onChange.
TimeInput(s) ==
  /\ Step
  /\ EditorRendered(jsonData, selectedItemIndex)
  /\ duration > 0
  /\ LET old == ActiveBox
     IN BoxUpdate(<<Normalized(s, duration), Q(old[2]), Q(old[3]), Q(old[4]), Q(old[5])>>,
                  Call("time", "", s, ""))

\* Sync Time storing the playback position in seconds.
SyncTimeSeconds ==
  /\ Step
  /\ EditorRendered(jsonData, selectedItemIndex)
  /\ LET old == ActiveBox
     IN BoxUpdate(<<currentTime * TUnit, Q(old[2]), Q(old[3]), Q(old[4]), Q(old[5])>>,
                  Call("sync", "", 0, ""))

\* The Sync Time button.
SyncTime ==
  /\ Step
  /\ EditorRendered(jsonData, selectedItemIndex)
  /\ LET old == ActiveBox
         newT == IF duration > 0 THEN Normalized(currentTime, duration) ELSE 0
     IN BoxUpdate(<<newT, Q(old[2]), Q(old[3]), Q(old[4]), Q(old[5])>>,
                  Call("sync", "", 0, ""))

\* The keyframe buttons.
SetActiveKeyframe(k) ==
  /\ Step
  /\ EditorRendered(jsonData, selectedItemIndex)
  /\ activeKeyframe' = k
  /\ last' = Call("keyframe", "", k, "")
  /\ UNCHANGED <<jsonData, selectedItemIndex, dragState, isPlaying, currentTime,
                 duration, exportData>>

\* The video element's loadedmetadata and timeupdate events.
VideoEvent(d, c) ==
  /\ Step
  /\ c <= d
  /\ <<d, c>> # <<duration, currentTime>>
  /\ duration' = d
  /\ currentTime' = c
  /\ last' = Call("video", "", d, "")
  /\ UNCHANGED <<jsonData, selectedItemIndex, activeKeyframe, dragState, isPlaying,
                 exportData>>

\* onMouseDown on the container (draw), the box body (move) or a handle.
MouseDown(mode, pt, rect) ==
  /\ Step
  /\ EditorRendered(jsonData, selectedItemIndex)
  /\ dragState' = [mode |-> mode, startX |-> pt[1], startY |-> pt[2],
                   startBox |-> ActiveBox, rect |-> rect]
  /\ last' = PointerCall("mousedown", mode, 0, pt, <<>>, TRUE)
  /\ UNCHANGED <<jsonData, selectedItemIndex, activeKeyframe, isPlaying, currentTime,
                 duration, exportData>>

\* handleMove adding the delta to the box stored by the previous move.
MouseMoveFromCurrent(pt, live) ==
  /\ Step
  /\ jsonData' = IF dragState = NoDrag THEN jsonData
                 ELSE IF MoveIssues(dragState, pt[1], pt[2])
                   THEN updateBox(jsonData, selectedItemIndex, activeKeyframe,
                                  MoveBox([dragState EXCEPT !.startBox = ActiveBox],
                                          pt[1], pt[2]))
                   ELSE jsonData
  /\ last' = IF dragState = NoDrag THEN Call("mousemove", "none", 0, "")
             ELSE [(IF MoveIssues(dragState, pt[1], pt[2])
                      THEN PointerCall("mousemove", dragState.mode, 1, pt, pt, last.pure)
                      ELSE PointerCall("mousemove", dragState.mode, 0, pt, last.far,
                                       last.pure))
                   EXCEPT !.live = live]
  /\ UNCHANGED <<selectedItemIndex, activeKeyframe, dragState, isPlaying,
                 currentTime, duration, exportData>>

\* A mousemove on the window: handleMove is attached while dragState is
\* set; without a drag there is no listener and nothing happens.  live is
\* the container's rectangle at the time of the event, which handleMove
\* does not read.
MouseMove(pt, live) ==
  /\ Step
  /\ jsonData' = IF dragState = NoDrag THEN jsonData
                 ELSE IF MoveIssues(dragState, pt[1], pt[2])
                   THEN updateBox(jsonData, selectedItemIndex, activeKeyframe,
                                  MoveBox(dragState, pt[1], pt[2]))
                   ELSE jsonData
  /\ last' = IF dragState = NoDrag THEN Call("mousemove", "none", 0, "")
             ELSE [(IF MoveIssues(dragState, pt[1], pt[2])
                      THEN PointerCall("mousemove", dragState.mode, 1, pt, pt, last.pure)
                      ELSE PointerCall("mousemove", dragState.mode, 0, pt, last.far,
                                       last.pure))
                   EXCEPT !.live = live]
  /\ UNCHANGED <<selectedItemIndex, activeKeyframe, dragState, isPlaying,
                 currentTime, duration, exportData>>

\* handleUp without the test on the mode.
MouseUpAnyMode(pt) ==
  /\ Step
  /\ dragState # NoDrag
  /\ isPlaying' = IF Within(pt[1] - dragState.startX, pt[2] - dragState.startY,
                            ClickThreshold)
                    THEN ~isPlaying ELSE isPlaying
  /\ dragState' = NoDrag
  /\ last' = PointerCall("mouseup", dragState.mode, 0, pt, last.far, last.pure)
  /\ UNCHANGED <<jsonData, selectedItemIndex, activeKeyframe, currentTime, duration,
                 exportData>>

\* handleUp without setDragState(null).
MouseUpKeepsDrag(pt) ==
  /\ Step
  /\ dragState # NoDrag
  /\ isPlaying' = IF /\ dragState.mode = "draw"
                     /\ Within(pt[1] - dragState.startX, pt[2] - dragState.startY,
                               ClickThreshold)
                    THEN ~isPlaying ELSE isPlaying
  /\ last' = PointerCall("mouseup", dragState.mode, 0, pt, last.far, last.pure)
  /\ UNCHANGED <<jsonData, selectedItemIndex, activeKeyframe, dragState, currentTime,
                 duration, exportData>>

\* handleUp
MouseUp(pt) ==
  /\ Step
  /\ dragState # NoDrag
  /\ isPlaying' = IF /\ dragState.mode = "draw"
                     /\ Within(pt[1] - dragState.startX, pt[2] - dragState.startY,
                               ClickThreshold)
                    THEN ~isPlaying ELSE isPlaying
  /\ dragState' = NoDrag
  /\ last' = PointerCall("mouseup", dragState.mode, 0, pt, last.far, last.pure)
  /\ UNCHANGED <<jsonData, selectedItemIndex, activeKeyframe, currentTime, duration,
                 exportData>>

\* The Export button.
DownloadJson ==
  /\ Step
  /\ exportData' = downloadJson(jsonData)
  /\ last' = Call("export", "", 0, "")
  /\ UNCHANGED <<jsonData, selectedItemIndex, activeKeyframe, dragState, isPlaying,
                 currentTime, duration>>

Next ==
  \/ StartWorkspace
  \/ \E i \in 0..(NItems - 1) : SelectItem(i)
  \/ \E v \in IncidentInputs : UpdateField("incident", v)
  \/ \E v \in CauseInputs : UpdateField("cause_code", v)
  \/ \E v \in SubCauseInputs : UpdateField("sub_cause_code", v)
  \/ \E v \in DescriptionInputs : UpdateField("description", v)
  \/ \E idx \in 1..4 : CoordControl(idx)
  \/ \E s \in TimeInputs : TimeInput(s)
  \/ SyncTime
  \/ \E k \in {0, 1} : SetActiveKeyframe(k)
  \/ \E d \in Durations, c \in CurrentTimes : VideoEvent(d, c)
  \/ \E m \in Modes, r \in Rects :
        /\ (r.width = 0 => m \in {"draw", "move"})
        /\ (r.height = 0 => m \in {"draw", "se"})
        /\ MouseDown(m, DownPoint, r)
  \/ \E pt \in Points, live \in Rects :
        \* the container changes size during a drag only when the drag
        \* captured it before it was laid out
        /\ (dragState.rect.width # 0 /\ dragState.rect.height # 0) => live = dragState.rect
        /\ MouseMove(pt, live)
  \/ \E pt \in Points : MouseUp(pt)
  \/ DownloadJson

Spec == Init /\ [][Next]_vars

\* --------------------------------------------- loading an annotated file
\* Loading the file written by the last export (processJsonFile on it).
ReImportExport ==
  /\ Step
  /\ exportData # <<>>
  /\ jsonData' = ReImport(exportData)
  /\ dragState' = Remount(dragState, jsonData', selectedItemIndex)
  /\ last' = Call("reimport", "", 0, "")
  /\ UNCHANGED <<selectedItemIndex, activeKeyframe, isPlaying, currentTime, duration,
                 exportData>>

\* Stored records a dataset file may carry, well-formed or not.
ImportBoxes ==
  {<<>>, << <<0, 0, 0, 0, 0>> >>, << <<100, 10, 20, 30, 40>>, <<1200, 40, 30, 20, 1001>> >>}

\* An annotated incident of cause 6 with sub-cause sc and the table's texts.
TableIncident(sc) ==
  [SeedIncident EXCEPT !.cause_code = 6, !.cause_text = CauseName[6],
                       !.sub_cause_code = sc, !.sub_cause_text = SubText(6, sc)]

ImportRecords ==
  [incident : {0, 1, 2, Undef}, message_type : {"DENM", "none"},
   cause_code : {Null, 0, 6}, sub_cause_code : {Null, 5},
   cause_text : {NullStr, "", "Accident"},
   sub_cause_text : {NullStr, "ice on road"},
   box_2d : ImportBoxes, description : {UndefStr, "ice"}]
    \cup {TableIncident(sc) : sc \in {Null, 0, 5}}

\* The annotations of the file items: the text of each such record, an
\* empty value and a value JSON.parse rejects.
ImportAnnotations ==
  {Annotation("object", Stringify(r)) : r \in ImportRecords}
    \cup {Annotation("absent", NoText),
          Annotation("empty", NoText),
          Annotation("malformed", NoText)}

\* The conversations of the file items: a human turn and an assistant turn
\* with such an annotation, in either order; no list; turns none of which
\* is the assistant's.
ImportConversations ==
  {<<HumanTurn, Turn("assistant", a)>> : a \in ImportAnnotations}
    \cup {<<>>, <<HumanTurn>>, <<Turn("system", Annotation("prompt", NoText)), HumanTurn>>,
          <<Turn("assistant", Annotation("object", Stringify(SeedIncident))), HumanTurn>>}

\* The state after a one-item file is loaded and the workspace started.
InitIO ==
  /\ \E c \in ImportConversations :
        /\ jsonData = processJsonFile(<<c>>)
        /\ last = [op |-> "load", key |-> "", val |-> 0,
                   text |-> AssistantValue(c).kind, after |-> "",
                   at |-> <<0, 0>>, far |-> <<>>, pure |-> FALSE,
                   live |-> Rect(0, 0, 0, 0), pre |-> DefaultParsed]
  /\ selectedItemIndex = 0
  /\ activeKeyframe = 0
  /\ dragState = NoDrag
  /\ isPlaying = FALSE
  /\ currentTime = 0
  /\ duration = 0
  /\ exportData = <<>>
  /\ steps = 0

NextIO ==
  \/ DownloadJson
  \/ ReImportExport
  \/ \E v \in IncidentInputs : UpdateField("incident", v)

SpecIO == InitIO /\ [][NextIO]_vars

\* ------------------------------------- updateBox and updateField as calls
\* Direct calls of the two mutators, on any dataset and selection: the
\* handlers above only call updateBox while the editor is rendered.
UpdateBoxCall(idx, newBox) ==
  /\ Step
  /\ jsonData' = updateBox(jsonData, selectedItemIndex, idx, newBox)
  /\ dragState' = Remount(dragState, jsonData', selectedItemIndex)
  /\ last' = Call("updateBox", "", idx, "")
  /\ UNCHANGED <<selectedItemIndex, activeKeyframe, isPlaying, currentTime, duration,
                 exportData>>

\* Boxes handed to updateBox: in range, and out of range with a fraction.
CallBoxes ==
  {<<500, Q(10), Q(20), Q(30), Q(40)>>, <<0, <<21, 2>>, <<1500, 1>>, Q(-5), Q(7)>>}

\* Items a loaded dataset may hold: no record, the default record, an
\* annotated incident, and records with another incident value or another
\* number of boxes.
CallItems ==
  {NoParsedItem, Item(DefaultParsed), Item(SeedIncident),
   Item([SeedIncident EXCEPT !.incident = 0]),
   Item([SeedIncident EXCEPT !.incident = 2]),
   Item([SeedIncident EXCEPT !.box_2d = << <<0, 0, 0, 0, 0>> >>]),
   Item([SeedIncident EXCEPT !.box_2d = <<>>])}

\* Any such item first, annotated incidents after it, and any selection.
InitCall ==
  /\ \E first \in CallItems :
        jsonData = [i \in 1..NItems |-> IF i = 1 THEN first ELSE Item(SeedIncident)]
  /\ selectedItemIndex \in -1..(NItems - 1)
  /\ activeKeyframe = 0
  /\ dragState = NoDrag
  /\ isPlaying = FALSE
  /\ currentTime = 0
  /\ duration = 0
  /\ exportData = <<>>
  /\ last = [op |-> "init", key |-> "", val |-> 0, text |-> "", after |-> "",
             pre |-> DefaultParsed, at |-> <<0, 0>>, far |-> <<>>, pure |-> FALSE,
             live |-> Rect(0, 0, 0, 0)]
  /\ steps = 0

NextCall ==
  \/ \E idx \in {0, 1}, b \in CallBoxes : UpdateBoxCall(idx, b)
  \/ \E v \in IncidentInputs : UpdateField("incident", v)
  \/ \E v \in CauseInputs : UpdateField("cause_code", v)
  \/ \E v \in SubCauseInputs : UpdateField("sub_cause_code", v)
  \/ \E v \in DescriptionInputs : UpdateField("description", v)

SpecCall == InitCall /\ [][NextCall]_vars

\* ------------------------------------------------- data-model invariants
Inv1(p) ==
  p.incident = 0 =>
    /\ p.message_type = "none"
    /\ p.cause_code = Null /\ p.sub_cause_code = Null
    /\ p.cause_text = NullStr /\ p.sub_cause_text = NullStr
    /\ p.box_2d = <<>>

Inv2(p) == p.incident = 1 => p.message_type = "DENM" /\ Len(p.box_2d) = 2

Inv3(p) ==
  p.sub_cause_code # Null =>
    /\ HasInfo(p.cause_code)
    /\ p.sub_cause_code \in DOMAIN SubCauseCodes[p.cause_code]

CoordsInRange(box) == \A k \in 2..5 : box[k] >= 0 /\ box[k] <= CoordMax
TimeInRange(box) == box[1] >= 0 /\ box[1] <= TUnit
Ordered(box) == box[2] <= box[4] /\ box[3] <= box[5]

Inv4(p) ==
  \A i \in 1..Len(p.box_2d) : CoordsInRange(p.box_2d[i]) /\ TimeInRange(p.box_2d[i])

WellFormed(p) == p.incident \in {0, 1} /\ Inv1(p) /\ Inv2(p) /\ Inv3(p) /\ Inv4(p)

Records == {jsonData[i].parsed : i \in {j \in 1..Len(jsonData) : jsonData[j].hasParsed}}

\* The keys of a cause code's sub-cause table (none for null or unknown).
SubKeys(c) == IF HasInfo(c) THEN DOMAIN SubCauseCodes[c] ELSE {}

\* ------------------------------------------------------------------ claims

\* C1 (as stated): every updateField call on a record satisfying the
\* data-model invariants, with any field and value, yields a record in which
\* incident = 0 implies message_type "none", null codes and texts, no boxes.
C1_AnyCallKeepsInv1 ==
  [][(last'.op = "updateField" /\ WellFormed(parsed)) => Inv1(parsed')]_vars

\* C1 (amended): the same, for the calls on incident and description, and for
\* the calls on cause_code and sub_cause_code made on a record whose incident
\* is 1.
C1_Inv1Closure ==
  [][(/\ last'.op = "updateField"
      /\ WellFormed(parsed)
      /\ last'.key \in {"cause_code", "sub_cause_code"} => parsed.incident = 1)
     => Inv1(parsed')]_vars

\* C1 witness: an incident with a cause code was switched off and came out
\* all-clear.
C1_Witness ==
  /\ last.op = "updateField" /\ last.key = "incident" /\ last.val = 0
  /\ WellFormed(last.pre) /\ last.pre.incident = 1 /\ last.pre.cause_code = 6
  /\ parsed.incident = 0 /\ parsed.cause_code = Null /\ parsed.box_2d = <<>>

\* C2: in every state reached from the default records by updateField and
\* updateBox calls, incident = 1 implies message_type "DENM" and exactly two
\* boxes.
C2_IncidentHasDenmAndTwoBoxes == \A p \in Records : Inv2(p)

\* C2 witness: an incident record after a box update.
C2_Witness ==
  /\ last.op \in {"coord", "time", "sync", "mousemove"}
  /\ parsed.incident = 1 /\ parsed.box_2d # DefaultBoxes

\* C3 (as stated): after every updateField call on a record satisfying the
\* invariants, a non-null sub_cause_code comes with a non-null cause_code
\* whose table has it as a key.
C3_AnyCallKeepsInv3 ==
  [][(last'.op = "updateField" /\ WellFormed(parsed)) => Inv3(parsed')]_vars

\* C3 (amended): the same, when a value passed for sub_cause_code is null, 0
\* or a key of the sub-cause table of the record's cause_code.
C3_Inv3Closure ==
  [][(/\ last'.op = "updateField"
      /\ WellFormed(parsed)
      /\ last'.key = "sub_cause_code" =>
           last'.val \in ({Null, 0} \cup SubKeys(parsed.cause_code)))
     => Inv3(parsed')]_vars

\* C3 witness: sub-cause 5 was selected under cause 6.
C3_Witness ==
  /\ last.op = "updateField" /\ last.key = "sub_cause_code" /\ last.val = 5
  /\ WellFormed(last.pre)
  /\ parsed.cause_code = 6 /\ parsed.sub_cause_code = 5

\* C4: after any updateBox call the four coordinates of every stored box are
\* integers within [0,1000]; an out-of-range input is clamped, not rejected.
C4_CoordsClamped ==
  /\ \A p \in Records : \A i \in 1..Len(p.box_2d) : CoordsInRange(p.box_2d[i])
  /\ (last.op = "coord" /\ last.text = "over") =>
        parsed.box_2d[activeKeyframe + 1][last.val + 1] = CoordMax

\* C4 witness: a typed coordinate above 1000 was stored as 1000.
C4_Witness ==
  /\ last.op = "coord" /\ last.text = "over"
  /\ parsed.box_2d[activeKeyframe + 1][last.val + 1] = CoordMax

\* C5: after any box update the timestamp t of every stored box lies within
\* [0,1]; a manual time entry beyond the duration or negative is clamped.
C5_TimeClamped ==
  \A p \in Records : \A i \in 1..Len(p.box_2d) : TimeInRange(p.box_2d[i])

\* C6: after any edit of a box (drag, stepper, typed coordinate) the stored
\* box has yMin <= yMax and xMin <= xMax.
C6_EditKeepsOrder ==
  (/\ last.op = "coord" \/ (last.op = "mousemove" /\ last.val = 1)
   /\ EditorRendered(jsonData, selectedItemIndex))
    => Ordered(parsed.box_2d[activeKeyframe + 1])

\* C7: every box written by a pointer-move of a move or resize drag has its
\* coordinates within [0,1000] and yMin <= yMax, xMin <= xMax.
C7_DragClampedAndOrdered ==
  (last.op = "mousemove" /\ last.key # "draw" /\ last.val = 1)
    => /\ CoordsInRange(parsed.box_2d[activeKeyframe + 1])
       /\ Ordered(parsed.box_2d[activeKeyframe + 1])

\* C7 witness: a resize from the north-west handle dragged past the opposite
\* corner of the box; the pair was swapped.
C7_Witness ==
  /\ last.op = "mousemove" /\ last.key = "nw" /\ last.val = 1
  /\ parsed.box_2d[activeKeyframe + 1] = <<0, 0, 0, 500, 500>>

\* C8: exporting, loading the exported file and exporting again gives the
\* same annotation strings and the same root type labels.
C8_ExportIdempotent ==
  [][(last.op = "reimport" /\ last'.op = "export") => exportData' = exportData]_vars

\* C8 witness: a record that violated the invariants (incident not 1 with a
\* cause text) was exported, loaded back and exported again.
C8_Witness ==
  /\ last.op = "export" /\ last.after = "reimport"
  /\ exportData[1].type = "none"
  /\ exportData[1].value.incident = <<"2">>

\* C9: for any stored record the exported record has message_type "DENM"
\* exactly when incident = 1, and when incident is not 1 it has message_type
\* "none", null codes and texts and no boxes.
C9_ExportRenormalizes ==
  last.op = "export" =>
    \A i \in 1..Len(jsonData) :
      LET p == jsonData[i].parsed
          e == Parse(exportData[i].value)
      IN /\ e.message_type = "DENM" <=> p.incident = 1
         /\ p.incident # 1 =>
              /\ e.message_type = "none"
              /\ e.cause_code = Null /\ e.sub_cause_code = Null
              /\ e.cause_text = NullStr /\ e.sub_cause_text = NullStr
              /\ e.box_2d = <<>>

\* C9 witness: a stored record with incident 0, message_type "DENM", a
\* cause and boxes was exported.
C9_Witness ==
  /\ last.op = "export"
  /\ parsed.incident = 0 /\ parsed.message_type = "DENM"
  /\ parsed.cause_code = 6 /\ Len(parsed.box_2d) = 2

\* C10: for every record reached from the default record by updateField and
\* updateBox calls the exported record passes the schema.
SchemaValid(e) ==
  /\ e.incident \in {0, 1}
  /\ e.incident = 1 =>
       /\ e.message_type = "DENM"
       /\ Len(e.box_2d) = 2
       /\ \A i \in 1..2 : CoordsInRange(e.box_2d[i])
  /\ e.incident = 0 =>
       /\ e.message_type = "none"
       /\ e.cause_code = Null /\ e.sub_cause_code = Null
       /\ e.cause_text = NullStr /\ e.sub_cause_text = NullStr
       /\ e.box_2d = <<>>

C10_ExportPassesSchema ==
  last.op = "export" =>
    \A i \in 1..Len(exportData) : SchemaValid(Parse(exportData[i].value))

\* C10 witness: an incident with an edited box was exported.
C10_Witness ==
  /\ last.op = "export" /\ parsed.incident = 1
  /\ parsed.box_2d # DefaultBoxes
  /\ Parse(exportData[selectedItemIndex + 1].value).box_2d = parsed.box_2d

\* C11: after updateField('cause_code', v), whatever v is (null, 0, a table
\* code or a code outside the table), the selected record has sub_cause_code
\* null and sub_cause_text null.
C11_CauseResetsSub ==
  (last.op = "updateField" /\ last.key = "cause_code")
    => parsed.sub_cause_code = Null /\ parsed.sub_cause_text = NullStr

\* C11 witness: the cause of a record with sub-cause 5 "ice on road" was
\* changed and the sub-cause is gone.
C11_Witness ==
  /\ last.op = "updateField" /\ last.key = "cause_code" /\ last.val \in {2, 99}
  /\ last.pre.sub_cause_code = 5 /\ last.pre.sub_cause_text = "ice on road"
  /\ parsed.cause_code = last.val
  /\ parsed.sub_cause_code = Null /\ parsed.sub_cause_text = NullStr

\* C12: updateField('cause_code', c) with c a code of the table, followed by
\* updateField('sub_cause_code', s) with s a key of c's sub-cause table,
\* leaves sub_cause_code = s and sub_cause_text = the table text of (c, s).
C12_CauseThenSubCause ==
  [][(/\ last.op = "updateField" /\ last.key = "cause_code" /\ HasInfo(last.val)
      /\ last'.op = "updateField" /\ last'.key = "sub_cause_code"
      /\ last'.val \in SubKeys(last.val)
      /\ HasSelected(jsonData, selectedItemIndex))
     => /\ parsed'.sub_cause_code = last'.val
        /\ parsed'.sub_cause_text = SubCauseCodes[last.val][last'.val]]_vars

\* The reference-table name of a cause code and the table text of a
\* (cause, sub-cause) pair; null where the table has no entry.
TableCauseText(c) == IF c \in DOMAIN CauseName THEN CauseName[c] ELSE NullStr
TableSubText(c, sc) ==
  IF c \in DOMAIN SubCauseCodes
    THEN IF sc \in DOMAIN SubCauseCodes[c] THEN SubCauseCodes[c][sc] ELSE NullStr
    ELSE NullStr

\* C13: in every state reached from the default record by updateField calls
\* on incident, cause_code, sub_cause_code and description, cause_text is the
\* table name of cause_code and sub_cause_text is the table text of
\* (cause_code, sub_cause_code), null where there is no entry.
C13_TextsMatchCodes ==
  \A p \in Records :
    /\ p.cause_text = TableCauseText(p.cause_code)
    /\ p.sub_cause_text = TableSubText(p.cause_code, p.sub_cause_code)

\* C13 witness: a sub-cause was chosen under a table cause and both texts
\* are the table's.
C13_Witness ==
  /\ last.op = "updateField" /\ last.key = "sub_cause_code"
  /\ parsed.cause_code = 6 /\ parsed.cause_text = "adverseWeatherCondition-adhesion"
  /\ parsed.sub_cause_code = 7 /\ parsed.sub_cause_text = "oil on road"

\* C14: switching the incident on and then off again leaves a record with
\* no boxes that equals the all-clear default record in every field except
\* description, which keeps the value it had before the two calls.
C14_ToggleRoundTrip ==
  [][(/\ last.op = "updateField" /\ last.key = "incident" /\ last.val = 1
      /\ last'.op = "updateField" /\ last'.key = "incident" /\ last'.val = 0
      /\ HasSelected(jsonData, selectedItemIndex))
     => /\ parsed'.box_2d = <<>>
        /\ parsed' = [DefaultParsed EXCEPT !.description = last.pre.description]]_vars

\* C14 witness: a described record was switched on (it got the default
\* boxes) and off again.
C14_Witness ==
  /\ last.op = "updateField" /\ last.key = "incident" /\ last.val = 0
  /\ last.after = "updateField"
  /\ last.pre.incident = 1 /\ last.pre.box_2d = DefaultBoxes
  /\ last.pre.description = "ice"
  /\ parsed = [DefaultParsed EXCEPT !.description = "ice"]

\* C15: updateField('incident', 1) sets message_type "DENM"; a record that
\* does not have exactly two boxes gets (0,0,0,0,0) and (1,0,0,0,0), a record
\* with exactly two boxes keeps them.
C15_IncidentOnInitialisesBoxes ==
  (/\ last.op = "updateField" /\ last.key = "incident" /\ last.val = 1
   /\ HasSelected(jsonData, selectedItemIndex))
    => /\ parsed.message_type = "DENM"
       /\ Len(last.pre.box_2d) # 2 =>
            parsed.box_2d = << <<0, 0, 0, 0, 0>>, <<TUnit, 0, 0, 0, 0>> >>
       /\ Len(last.pre.box_2d) = 2 => parsed.box_2d = last.pre.box_2d

\* C15 witness: the incident was switched on for a record that already had
\* two edited boxes.
C15_Witness ==
  /\ last.op = "updateField" /\ last.key = "incident" /\ last.val = 1
  /\ Len(last.pre.box_2d) = 2 /\ last.pre.box_2d # DefaultBoxes
  /\ parsed.message_type = "DENM" /\ parsed.box_2d = last.pre.box_2d

\* C16: updateField with a cause code outside the table stores the code with
\* cause_text null; with a sub-cause code outside the table of the record's
\* cause it stores the code with sub_cause_text null.
C16_UnknownCodesStored ==
  (last.op = "updateField" /\ HasSelected(jsonData, selectedItemIndex)
     /\ last.val \notin {Null, 0})
    => /\ (last.key = "cause_code" /\ ~HasInfo(last.val)) =>
            parsed.cause_code = last.val /\ parsed.cause_text = NullStr
       /\ (last.key = "sub_cause_code" /\ last.val \notin SubKeys(last.pre.cause_code)) =>
            parsed.sub_cause_code = last.val /\ parsed.sub_cause_text = NullStr

\* C16 witness: with sub-cause 5 "ice on road" of cause 6 selected, the
\* unknown sub-cause 99 was stored and the text became null.
C16_Witness ==
  /\ last.op = "updateField" /\ last.key = "sub_cause_code" /\ last.val = 99
  /\ last.pre.cause_code = 6 /\ last.pre.sub_cause_text = "ice on road"
  /\ parsed.sub_cause_code = 99 /\ parsed.sub_cause_text = NullStr

\* ------------------------------------------------------- draw gestures
\* k is the integer nearest to the rational q limited to [0,1000] (a half
\* goes to the upper neighbour).
NearestTo(k, q) ==
  LET c == ClampQ(q)
  IN 2 * (k * c[2] - c[1]) <= c[2] /\ 2 * (c[1] - k * c[2]) < c[2]

Nearest(q) == CHOOSE k \in 0..CoordMax : NearestTo(k, q)

\* The stored rectangle spanning the drag origin of ds and the pointer
\* position pt: pixel / container dimension * 1000, smaller value first.
SpanBox(ds, pt) ==
  LET x1 == Nearest(<<(ds.startX - ds.rect.left) * 1000, ds.rect.width>>)
      x2 == Nearest(<<(pt[1] - ds.rect.left) * 1000, ds.rect.width>>)
      y1 == Nearest(<<(ds.startY - ds.rect.top) * 1000, ds.rect.height>>)
      y2 == Nearest(<<(pt[2] - ds.rect.top) * 1000, ds.rect.height>>)
  IN <<ds.startBox[1], Min(y1, y2), Min(x1, x2), Max(y1, y2), Max(x1, x2)>>

\* The pointer-up at last'.at ends a draw gesture made of pointer events only.
DrawGestureEnds ==
  /\ last'.op = "mouseup" /\ dragState.mode = "draw" /\ last.pure

\* The pointer-up position is less than ClickThreshold from the pointer-down.
UpIsClick ==
  Within(last'.at[1] - dragState.startX, last'.at[2] - dragState.startY, ClickThreshold)

\* C17: a draw gesture (pointer-down, any pointer-moves, pointer-up) whose
\* pointer-up is less than 5 px from its pointer-down leaves the active box
\* as it was at the pointer-down and toggles play/pause.
C17_ClickNotDraw ==
  [][(DrawGestureEnds /\ UpIsClick)
     => /\ isPlaying' = ~isPlaying
        /\ ActiveBox' = dragState.startBox]_vars

\* C18 (as stated): a draw gesture on a container of non-zero size whose
\* pointer-up, at the position of its last pointer-move, is 5 px or more
\* from its pointer-down does not toggle play/pause and leaves as active box
\* the rectangle spanning the pointer-down and that last position.
C18_DrawKeepsSpannedRectangle ==
  [][(/\ DrawGestureEnds /\ ~UpIsClick
      /\ dragState.rect.width # 0 /\ dragState.rect.height # 0
      /\ last.op = "mousemove" /\ last.at = last'.at)
     => /\ isPlaying' = isPlaying
        /\ ActiveBox' = SpanBox(dragState, last'.at)]_vars

\* C18 (amended): such a gesture does not toggle play/pause and leaves as
\* active box the rectangle spanning the pointer-down and the last
\* pointer-move that issued an update (15 px or more from the pointer-down,
\* container of non-zero size); without such a move the box is the one at
\* the pointer-down.
C18_DrawKeepsLastDrawnRectangle ==
  [][(DrawGestureEnds /\ ~UpIsClick)
     => /\ isPlaying' = isPlaying
        /\ ActiveBox' = IF last.far = <<>> THEN dragState.startBox
                        ELSE SpanBox(dragState, last.far)]_vars

\* C18 witness: a draw from (100,100) to (500,400) was released there; the
\* rectangle is stored and the player was not toggled.
C18_Witness ==
  /\ last.op = "mouseup" /\ last.key = "draw" /\ last.pure
  /\ last.at = <<500, 400>> /\ last.far = <<500, 400>>
  /\ ~isPlaying
  /\ ActiveBox = <<last.pre.box_2d[activeKeyframe + 1][1], 167, 125, 667, 625>>

\* C19: every pointer-move of a draw that issues an update stores the
\* coordinates nearest to pixel / container dimension * 1000 (within
\* [0,1000]), with t unchanged when the gesture is made of pointer events
\* only; on an 800x600 container at the pointer origin, a draw from (100,100)
\* to (500,400) stores (t, 167, 125, 667, 625).
C19_DrawStoresNearestInteger ==
  (last.op = "mousemove" /\ last.key = "draw" /\ last.val = 1)
    => /\ ActiveBox = SpanBox(dragState, last.at)
       /\ last.pure => ActiveBox[1] = last.pre.box_2d[activeKeyframe + 1][1]
       /\ (/\ dragState.rect = Rect(0, 0, 800, 600)
           /\ dragState.startX = 100 /\ dragState.startY = 100
           /\ last.at = <<500, 400>>)
          => ActiveBox = <<dragState.startBox[1], 167, 125, 667, 625>>

\* C19 witness: the pointer-move to (500,400) of that draw, on a box with
\* t = 0.1.
C19_Witness ==
  /\ last.op = "mousemove" /\ last.key = "draw" /\ last.val = 1 /\ last.pure
  /\ dragState.rect = Rect(0, 0, 800, 600)
  /\ dragState.startX = 100 /\ dragState.startY = 100 /\ last.at = <<500, 400>>
  /\ last.pre.box_2d[activeKeyframe + 1][1] = 100
  /\ ActiveBox = <<100, 167, 125, 667, 625>>

\* C20: from the box (0.1, 0, 0, 100, 100), a pointer-move of a move drag
\* whose horizontal delta is -2000 normalized units (-1600 px on an 800 px
\* wide container) and whose vertical delta is 0 stores (0.1, 0, 0, 100, 100).
C20_MoveClampKeepsBox ==
  (/\ last.op = "mousemove" /\ last.key = "move" /\ last.val = 1
   /\ dragState.startBox = <<100, 0, 0, 100, 100>>
   /\ dragState.rect = Rect(0, 0, 800, 600)
   /\ last.at[1] - dragState.startX = -1600 /\ last.at[2] = dragState.startY)
    => ActiveBox = <<100, 0, 0, 100, 100>>

\* ------------------------------------------------------ drag life cycle
\* C21: a pointer-up during a drag, in any mode and at any position, leaves
\* the overlay idle; while it is idle no pointer-move changes the dataset,
\* and only a pointer-down ends the idle state.
C21_PointerUpEndsDrag ==
  [][/\ last'.op = "mouseup" => dragState' = NoDrag
     /\ (dragState = NoDrag /\ last'.op = "mousemove") => jsonData' = jsonData
     /\ (dragState = NoDrag /\ dragState' # NoDrag) => last'.op = "mousedown"]_vars

\* C21 witness: after the pointer-up of a drag the pointer moved and the
\* boxes stayed.
C21_Witness ==
  /\ last.op = "mousemove" /\ last.after = "mouseup" /\ last.key = "none"
  /\ dragState = NoDrag
  /\ EditorRendered(jsonData, selectedItemIndex)
  /\ parsed = last.pre

\* C22: while a drag is in flight a pointer-down on the container, the box
\* body or a handle leaves the drag's mode, origin, start box and
\* rectangle as they are.
C22_DragNotReplaced ==
  [][(dragState # NoDrag /\ last'.op = "mousedown") => dragState' = dragState]_vars

\* C23: while the rectangle captured by a drag has zero width or zero
\* height, a pointer-move issues no update and leaves the dataset unchanged
\* (no coordinate is computed), and the pointer-up leaves the overlay idle.
C23_ZeroRectMovesIgnored ==
  [][(dragState # NoDrag /\ (dragState.rect.width = 0 \/ dragState.rect.height = 0))
     => /\ last'.op = "mousemove" => (jsonData' = jsonData /\ last'.val = 0)
        /\ last'.op = "mouseup" => dragState' = NoDrag]_vars

\* C23 witness: a draw on a container of zero height moved far from its
\* origin and nothing was written.
C23_Witness ==
  /\ last.op = "mousemove" /\ last.key = "draw" /\ last.at = <<500, 400>>
  /\ dragState.rect.height = 0 /\ dragState.rect.width # 0
  /\ last.val = 0 /\ parsed = last.pre

\* ------------------------------------------------------ loading and export
\* C24: loading an item whose annotation string is absent, empty or not
\* parsable as JSON gives it the all-empty default record (incident 0,
\* message_type "none", null codes and texts, no boxes, description "").
C24_BadAnnotationGetsDefault ==
  (last.op = "load" /\ last.text \in {"absent", "empty", "malformed"})
    => /\ jsonData[1].hasParsed
       /\ jsonData[1].parsed =
            [incident |-> 0, message_type |-> "none",
             cause_code |-> Null, sub_cause_code |-> Null,
             cause_text |-> NullStr, sub_cause_text |-> NullStr,
             box_2d |-> <<>>, description |-> ""]

\* C24 witness: a file whose annotation JSON.parse rejects was loaded.
C24_Witness ==
  /\ last.op = "load" /\ last.text = "malformed"
  /\ jsonData[1].hasParsed /\ jsonData[1].parsed.incident = 0
  /\ jsonData[1].parsed.description = ""

\* C25 (as stated): the exported type label is "none" for a record that is
\* not an incident and otherwise the lowercase cause_text and the lowercase
\* sub_cause_text joined with " - ".
C25_TypeIsJoinedTexts ==
  last.op = "export" =>
    \A i \in 1..Len(jsonData) :
      LET p == jsonData[i].parsed
      IN exportData[i].type =
           IF p.incident # 1 THEN "none"
           ELSE toLowerCase(p.cause_text) \o " - " \o toLowerCase(p.sub_cause_text)

\* C25 (amended): the label is "none" for a record that is not an incident
\* or has no cause_text, the lowercase cause_text alone when there is no
\* sub_cause_text, and the two lowercase texts joined with " - " otherwise.
C25_TypeLabel ==
  last.op = "export" =>
    \A i \in 1..Len(jsonData) :
      LET p == jsonData[i].parsed
          noCause == p.cause_text \in {NullStr, UndefStr, ""}
          noSub == p.sub_cause_text \in {NullStr, UndefStr, ""}
      IN exportData[i].type =
           IF p.incident # 1 \/ noCause THEN "none"
           ELSE IF noSub THEN toLowerCase(p.cause_text)
           ELSE toLowerCase(p.cause_text) \o " - " \o toLowerCase(p.sub_cause_text)

\* C25 witness: an incident with cause 6 and sub-cause 5 was exported.
C25_Witness ==
  /\ last.op = "export" /\ parsed.incident = 1
  /\ parsed.cause_text = "adverseWeatherCondition-adhesion"
  /\ parsed.sub_cause_text = "ice on road"
  /\ exportData[selectedItemIndex + 1].type = "adverseweathercondition-adhesion - ice on road"

\* C26: updateField on description assigns the value and leaves incident,
\* message_type, the codes, the texts and box_2d of the record unchanged.
C26_DescriptionOnly ==
  (/\ last.op = "updateField" /\ last.key = "description"
   /\ HasSelected(jsonData, selectedItemIndex))
    => /\ parsed.description = last.text
       /\ \A f \in {"incident", "message_type", "cause_code", "sub_cause_code",
                     "cause_text", "sub_cause_text", "box_2d"} : parsed[f] = last.pre[f]

\* C26 witness: the description of an incident with a cause was written.
C26_Witness ==
  /\ last.op = "updateField" /\ last.key = "description" /\ last.text = "ice"
  /\ last.pre.description = "" /\ parsed.description = "ice"
  /\ parsed.incident = 1 /\ parsed.cause_code = 6 /\ Len(parsed.box_2d) = 2

\* ------------------------------------------------------- drags, per move
\* C27: the start box of a drag is the active box at the pointer-down; every
\* box a pointer-move of the drag writes carries the t of that start box, and
\* the box of the keyframe that is not active is left as it was.
C27_DragKeepsTimeAndOtherKeyframe ==
  [][/\ last'.op = "mousedown" => dragState'.startBox = ActiveBox
     /\ (last'.op = "mousemove" /\ dragState # NoDrag)
          => /\ last'.val = 1 => ActiveBox'[1] = dragState.startBox[1]
             /\ parsed'.box_2d[2 - activeKeyframe] = parsed.box_2d[2 - activeKeyframe]]_vars

\* C27 witness: with the end keyframe active, a drag rewrote the end box
\* with its t = 1 and left the start box (0.1, 0, 0, 100, 100) alone.
C27_Witness ==
  /\ last.op = "mousemove" /\ last.val = 1 /\ last.pure
  /\ activeKeyframe = 1
  /\ parsed.box_2d[2][1] = TUnit /\ parsed.box_2d[2] # <<TUnit, 0, 0, 0, 0>>
  /\ parsed.box_2d[1] = <<100, 0, 0, 100, 100>>

\* C28: a pointer-move of a draw drag less than 15 px from the pointer-down
\* position issues no update and leaves the dataset unchanged.
C28_DrawBelowThresholdIgnored ==
  [][(/\ last'.op = "mousemove" /\ dragState.mode = "draw"
      /\ (last'.at[1] - dragState.startX) * (last'.at[1] - dragState.startX)
           + (last'.at[2] - dragState.startY) * (last'.at[2] - dragState.startY)
         < 15 * 15)
     => jsonData' = jsonData /\ last'.val = 0]_vars

\* C28 witness: a draw on an 800x600 container moved 14.1 px and nothing
\* was written.
C28_Witness ==
  /\ last.op = "mousemove" /\ last.key = "draw" /\ last.at = <<110, 110>>
  /\ dragState.startX = 100 /\ dragState.startY = 100
  /\ dragState.rect = Rect(0, 0, 800, 600)
  /\ last.val = 0 /\ parsed = last.pre

\* The coordinate s of the start box after a delta of dnum / dim when the
\* mode names it, as a rational over dim.
Shifted(s, named, dnum, dim) == <<s * dim + (IF named THEN dnum ELSE 0), dim>>

InRange(q) == q[1] >= 0 /\ q[1] <= CoordMax * q[2]

C30_RectCapturedOnceUnlessZero ==
  [][(last'.op = "mousemove" /\ dragState # NoDrag)
     => dragState'.rect =
          IF dragState.rect.width = 0 \/ dragState.rect.height = 0
            THEN last'.live ELSE dragState.rect]_vars

\* C31: updateBox returns the previous dataset unchanged when no item is
\* selected, when the selected item has no record, when its incident is not
\* 1, or when its box_2d does not have exactly two entries.
C31_UpdateBoxNoOp ==
  [][(/\ last'.op = "updateBox"
      /\ \/ selectedItemIndex = -1
         \/ ~jsonData[selectedItemIndex + 1].hasParsed
         \/ jsonData[selectedItemIndex + 1].parsed.incident # 1
         \/ Len(jsonData[selectedItemIndex + 1].parsed.box_2d) # 2)
     => jsonData' = jsonData]_vars

\* updateBox was called on a selected record with two boxes whose incident
\* is not 1, and the boxes are the ones it found.
C31_Witness ==
  /\ last.op = "updateBox"
  /\ HasSelected(jsonData, selectedItemIndex)
  /\ last.pre.incident \notin {0, 1}
  /\ Len(last.pre.box_2d) = 2
  /\ parsed = last.pre

\* C32: updateBox and updateField change only the selected item's record,
\* every other item is unchanged; updateBox also leaves the selected
\* record's other keyframe box and all its non-box fields unchanged.
C32_OnlySelectedRecord ==
  [][last'.op \in {"updateBox", "updateField"} =>
       /\ Len(jsonData') = Len(jsonData)
       /\ \A i \in 1..Len(jsonData) :
             /\ i # selectedItemIndex + 1 => jsonData'[i] = jsonData[i]
             /\ jsonData'[i].hasParsed = jsonData[i].hasParsed
       /\ last'.op = "updateBox" =>
             LET old == Selected(jsonData, selectedItemIndex)
                 new == Selected(jsonData', selectedItemIndex)
             IN /\ [new EXCEPT !.box_2d = <<>>] = [old EXCEPT !.box_2d = <<>>]
                /\ Len(new.box_2d) = Len(old.box_2d)
                /\ \A k \in 1..Len(old.box_2d) :
                      k # last'.val + 1 => new.box_2d[k] = old.box_2d[k]]_vars

\* updateField changed the selected record while another item holds an
\* annotated incident.
C32_Witness ==
  /\ last.op = "updateField"
  /\ selectedItemIndex = 0
  /\ parsed # last.pre
  /\ jsonData[2] = Item(SeedIncident)

\* C33: Sync Time writes currentTime / duration into t of the active
\* keyframe's box (0 when the duration is not positive) and leaves that
\* box's four coordinates and the other keyframe's box unchanged.
C33_SyncTime ==
  last.op = "sync" =>
    LET k == activeKeyframe + 1
        box == parsed.box_2d[k]
    IN /\ duration > 0 => box[1] * duration = currentTime * TUnit
       /\ duration <= 0 => box[1] = 0
       /\ \A j \in 2..5 : box[j] = last.pre.box_2d[k][j]
       /\ parsed.box_2d[3 - k] = last.pre.box_2d[3 - k]

\* Sync Time at 5 s of a 10 s clip replaced the time of a box with
\* non-zero coordinates.
C33_Witness ==
  /\ last.op = "sync"
  /\ duration = 10 /\ currentTime = 5
  /\ parsed.box_2d[activeKeyframe + 1][1] = TUnit \div 2
  /\ last.pre.box_2d[activeKeyframe + 1][1] # TUnit \div 2
  /\ parsed.box_2d[activeKeyframe + 1][5] # 0

\* The keys of IncidentData.
SchemaKeys ==
  {"incident", "message_type", "cause_code", "sub_cause_code", "cause_text",
   "sub_cause_text", "box_2d", "description"}

\* C34: every exported item has no internal _parsed field; its annotation
\* string holds exactly the eight schema keys, none left out; and an item
\* that had no assistant turn has one after the export.
C34_ExportedItems ==
  \A i \in 1..Len(exportData) :
    LET e == exportData[i]
        k == AssistantIdx(e.conversations)
    IN /\ ~e.hasParsed
       /\ k # 0
       /\ e.conversations[k].value.kind = "object"
       /\ DOMAIN e.conversations[k].value.obj = SchemaKeys
       /\ \A key \in SchemaKeys \ {"box_2d"} : e.conversations[k].value.obj[key] # <<>>
       /\ (last.op = "export" /\ AssistantIdx(jsonData[i].conversations) = 0) =>
             /\ Len(e.conversations) > Len(jsonData[i].conversations)
             /\ e.conversations[Len(e.conversations)] = AssistantTurn(e.value)

\* An item whose turns are a system and a human one was exported with an
\* assistant turn after them.
C34_Witness ==
  /\ last.op = "export"
  /\ Len(jsonData[1].conversations) = 2
  /\ AssistantIdx(jsonData[1].conversations) = 0
  /\ Len(exportData[1].conversations) = 3
  /\ exportData[1].conversations[3].from = "assistant"

\* A record that satisfies the data-model invariants, with codes of the
\* reference table (or null) and the table's texts.
TableRecord(p) ==
  /\ WellFormed(p)
  /\ p.cause_code \in DOMAIN CauseName \cup {Null}
  /\ p.cause_text = TableCauseText(p.cause_code)
  /\ p.sub_cause_text = TableSubText(p.cause_code, p.sub_cause_code)
  /\ p.description # UndefStr

\* C35: for every record that satisfies the data-model invariants, also one
\* whose sub_cause_code is the table key 0, parsing the exported annotation
\* string gives a record equal to it in all eight fields.
C35_RoundTrip ==
  last.op = "export" =>
    \A i \in 1..Len(jsonData) :
      TableRecord(jsonData[i].parsed) =>
        Parse(exportData[i].conversations[AssistantIdx(exportData[i].conversations)].value.obj)
          = jsonData[i].parsed

\* ------------------------------------------------------ drags, as a whole
\* C36: the box written by a pointer-move of a move or resize drag is a
\* function of the start box, the captured rectangle and the pointer
\* position alone, whatever the earlier pointer-moves were; a pointer-move
\* at the drag origin writes back a start box that is in range and ordered.
C36_PathIndependent ==
  (last.op = "mousemove" /\ last.key \notin {"draw", "none"} /\ last.val = 1)
    => LET b == ResizeBox(dragState, last.at[1], last.at[2])
       IN /\ ActiveBox = <<b[1], ClampRound(b[2]), ClampRound(b[3]),
                            ClampRound(b[4]), ClampRound(b[5])>>
          /\ (/\ last.at = <<dragState.startX, dragState.startY>>
              /\ CoordsInRange(dragState.startBox)
              /\ Ordered(dragState.startBox))
             => ActiveBox = dragState.startBox

\* C36 witness: a drag moved the box away and then back to its origin; the
\* start box is stored again.
C36_Witness ==
  /\ last.op = "mousemove" /\ last.after = "mousemove" /\ last.val = 1
  /\ last.key \notin {"draw", "none"}
  /\ last.at = <<dragState.startX, dragState.startY>>
  /\ last.pre.box_2d[activeKeyframe + 1] # dragState.startBox
  /\ ActiveBox = dragState.startBox

\* C37: a pointer-move of an edge resize leaves the stored coordinates of
\* the other axis as they were: xMin and xMax in modes n and s, yMin and
\* yMax in modes e and w, for every box that drags and manual coordinate
\* edits can produce (gestures of pointer events only).
C37_EdgeKeepsOtherAxis ==
  (last.op = "mousemove" /\ last.val = 1 /\ last.pure)
    => LET before == last.pre.box_2d[activeKeyframe + 1]
       IN /\ last.key \in {"n", "s"} =>
               ActiveBox[3] = before[3] /\ ActiveBox[5] = before[5]
          /\ last.key \in {"e", "w"} =>
               ActiveBox[2] = before[2] /\ ActiveBox[4] = before[4]

\* C38: the overlay toggles play/pause only at the pointer-up of a drag in
\* draw mode; the pointer-up of a move or resize drag never toggles it,
\* wherever it happens; and a toggle ends the drag, so that a gesture
\* toggles at most once.
C38_ToggleOnlyAtDrawPointerUp ==
  [][/\ isPlaying' # isPlaying =>
          /\ last'.op = "mouseup" /\ dragState.mode = "draw"
          /\ dragState' = NoDrag
     /\ (last'.op = "mouseup" /\ dragState.mode # "draw") => isPlaying' = isPlaying]_vars

\* C38 witness: the box body was pressed and released at the same place,
\* and the player was not toggled.
C38_Witness ==
  /\ last.op = "mouseup" /\ last.key = "move" /\ last.after = "mousedown"
  /\ last.at = DownPoint
  /\ ~isPlaying /\ dragState = NoDrag
====
